---- MODULE Spec2Model ----
(***************************************************************************)
(* The in-memory watch-party backend of src/server.js (lines 492-622):     *)
(* the room registry `rooms`, the per-name rate limiter                    *)
(* `userLastMessageTime`, the six request handlers, the 5-second clock     *)
(* ticker and the 5-minute reaper.                                         *)
(*                                                                         *)
(* Node runs every handler and timer callback to completion on one thread, *)
(* so each callback is one action.  The only loop that need not terminate, *)
(* the do-while of generateRoomCode, is modelled draw by draw; while it    *)
(* runs no other callback can start (pc # "idle").                         *)
(*                                                                         *)
(* Times are Date.now() values in milliseconds, counted from an epoch one  *)
(* millisecond before the first state so that they stay within TLC's       *)
(* integers; Date.now() is positive and does not run backwards.            *)
(***************************************************************************)
EXTENDS Integers, Sequences, FiniteSets, TLC

VARIABLES
    rooms,                \* own properties of `rooms`: room code -> room object
    keyOrder,             \* the own keys of `rooms` in insertion order
    userLastMessageTime,  \* own properties of `userLastMessageTime`: name -> ms
    now,                  \* what Date.now() returns
    res,                  \* the response sent by the last request handler
    pc,                   \* "idle", or "generateRoomCode" inside the do-while
    creator,              \* req.query.username of the /create-room in progress
    ticks,                \* history: how often the clock ticker has fired
    born,                 \* history: room code -> value of `ticks` at creation
    touched,              \* history: room code -> time of the last request
                          \*   that was served on the room (creation included)
    advances,             \* history: how often the time has been advanced
    lastAccepted,         \* history: name -> time its last message was stored
    reaped                \* history: code of a deleted room that has not been
                          \*   created again -> the time of the sweep

vars == <<rooms, keyOrder, userLastMessageTime, now, res, pc, creator,
          ticks, born, touched, advances, lastAccepted, reaped>>

(***************************************************************************)
(* Bounds of the model.  They limit what the environment does (how often   *)
(* the timer fires, how far time moves, how many messages are posted) and  *)
(* are imposed in the next-state relation, not in the callbacks.           *)
(***************************************************************************)
MaxTicks == 1
MaxAdvances == 3
MaxMessages == 2

(***************************************************************************)
(* Program constants.                                                      *)
(***************************************************************************)
MESSAGE_RATE_LIMIT == 5000
TICK_STEP == 5
INACTIVITY_LIMIT == 30 * 60 * 1000

(***************************************************************************)
(* JavaScript values.  `undefined` and `null` are markers that differ from *)
(* every string a request carries.                                         *)
(***************************************************************************)
undefined == "<undefined>"
null == "<null>"

\* !v for a value that is a string, undefined or null
\* A test that takes only a missing value for empty.
FalsyMissing(v) == v \in {undefined, null}

Falsy(v) == v \in {"", undefined, null}

\* An object without properties, and an object literal {k: v}.
EmptyObject == [k \in {} |-> k]
Prop(k, v) == k :> v

\* An object with only its properties in S (what `delete` leaves).
Restrict(f, S) == [k \in S |-> f[k]]

\* What res.json keeps of a property: JSON.stringify drops undefined values.
JsonProp(k, v) == IF v = undefined THEN EmptyObject ELSE Prop(k, v)

(***************************************************************************)
(* Inputs.                                                                 *)
(***************************************************************************)
\* Codes Math.random().toString(36).substr(2, 5).toUpperCase() can draw.
GenCodes == {"12345", "A1B2C"}

\* Keys that are array indices: Object.keys lists them first.
ArrayIndexCodes == {"12345"}

\* Names every plain object inherits from Object.prototype (a sample).
InheritedKeys == {"constructor", "__proto__"}

\* :roomCode of a request: the codes in use and one that is never generated.
ReqCodes == GenCodes \cup {"NOPE0"}

CreateNames == {undefined, "", "alice"}
PostNames == {"", "alice"}

\* Requests that use inherited names: as :roomCode, and as the poster's name.
\* ("__proto__" as a room code makes the handlers write to Object.prototype
\* itself and is left out of the requests modelled.)
InheritedReqCodes == {"A1B2C", "constructor"}
InheritedPostNames == {"alice", "__proto__"}
Pictures == {null}
Messages == {"", "hi"}

\* req.query of /set-room-details: url with or without a movieTitle
Details ==
    {[url |-> "", movieTitle |-> undefined],
     [url |-> "https://x/video", movieTitle |-> "Movie A"]}

\* How far the clock moves between callbacks, the i-th time it is let to
\* move: one millisecond short of the rate limit, one millisecond, the
\* reaper's limit, and again.  The instants 1, 5000, 5001, 1805001 that result
\* lie 4999, 5000, 1800000 and 1800001 ms apart.
TimeSteps == <<MESSAGE_RATE_LIMIT - 1, 1, INACTIVITY_LIMIT>>
TimeStep(i) == TimeSteps[((i - 1) % Len(TimeSteps)) + 1]

(***************************************************************************)
(* Property lookup on the two plain objects.                               *)
(***************************************************************************)
\* rooms[code] is truthy: an own room object, or an inherited property.
RoomTruthy(code) == code \in DOMAIN rooms \/ code \in InheritedKeys

\* Object.keys(rooms): array-index keys first, then insertion order.
IsIndexKey(k) == k \in ArrayIndexCodes
IsNameKey(k) == k \notin ArrayIndexCodes
ObjectKeys == SelectSeq(keyOrder, IsIndexKey) \o SelectSeq(keyOrder, IsNameKey)

\* userLastMessageTime[username] && now - userLastMessageTime[username] < LIMIT
\*   own number n        : n # 0 and t - n < LIMIT
\*   inherited object    : truthy, t - object is NaN, NaN < LIMIT is false
\*   undefined           : falsy
RateLimited(username, t) ==
    IF username \in DOMAIN userLastMessageTime
    THEN /\ userLastMessageTime[username] # 0
         /\ t - userLastMessageTime[username] < MESSAGE_RATE_LIMIT
    ELSE FALSE

\* userLastMessageTime[username] = t.  Assigning a number to "__proto__"
\* runs Object.prototype's __proto__ setter, which ignores a non-object.
RecordTime(username, t) ==
    IF username = "__proto__"
    THEN userLastMessageTime
    ELSE Prop(username, t) @@ userLastMessageTime

(***************************************************************************)
(* Responses.  res keeps the status and the body of the last response,     *)
(* except that a body read off the registry (the answers of /time,         *)
(* /room-details and /rooms) is not copied into res: it is the state       *)
(* function TimeBody, DetailsBody or RoomList of the state the handler     *)
(* leaves, and res records only that it was sent.                          *)
(***************************************************************************)
Json(status, body) == [status |-> status, body |-> body]
ErrorBody(text) == [error |-> text]
NoResponse == Json(0, EmptyObject)
NotFound == Json(404, ErrorBody("Room not found"))
Success == Json(200, [success |-> TRUE])
SentFromRegistry == Json(200, [registry |-> TRUE])

(***************************************************************************)
(* Initial state: both objects empty, no request served yet.               *)
(***************************************************************************)
Init ==
    /\ rooms = EmptyObject
    /\ keyOrder = <<>>
    /\ userLastMessageTime = EmptyObject
    /\ now = 1
    /\ res = NoResponse
    /\ pc = "idle"
    /\ creator = undefined
    /\ ticks = 0
    /\ born = EmptyObject
    /\ touched = EmptyObject
    /\ advances = 0
    /\ lastAccepted = EmptyObject
    /\ reaped = EmptyObject

(***************************************************************************)
(* GET /create-room and generateRoomCode.                                  *)
(***************************************************************************)
\* A room named by the bare username.
NewRoomBareName(username, t) ==
    [currentTime |-> 0, videoUrl |-> "", lastActivity |-> t,
     roomName |-> username, movieTitle |-> "", chat |-> <<>>]

NewRoom(username, t) ==
    [currentTime |-> 0,
     videoUrl |-> "",
     lastActivity |-> t,
     roomName |-> username \o "'s room",
     movieTitle |-> "",
     chat |-> <<>>]

\* A handler that does not test the username.
CreateRoomUnchecked(username) ==
    /\ pc = "idle"
    /\ pc' = "generateRoomCode"
    /\ creator' = username
    /\ UNCHANGED <<res, rooms, keyOrder, userLastMessageTime, now, ticks, born,
                   touched, advances, lastAccepted, reaped>>

\* The handler up to the call of generateRoomCode.
CreateRoom(username) ==
    /\ pc = "idle"
    /\ IF Falsy(username)
       THEN /\ res' = Json(400, ErrorBody("Username is required"))
            /\ UNCHANGED <<pc, creator>>
       ELSE /\ pc' = "generateRoomCode"
            /\ creator' = username
            /\ UNCHANGED res
    /\ UNCHANGED <<rooms, keyOrder, userLastMessageTime, now, ticks, born,
                   touched, advances, lastAccepted, reaped>>

\* A generator that accepts every draw.
CollidesNever(code) == FALSE

\* while (rooms[roomCode])
Collides(code) == RoomTruthy(code)

\* A generator that gives up at the first collision instead of resampling:
\* the request is answered 500 and the handler returns without a room.
GenerateRoomCodeGivingUp(code) ==
    /\ pc = "generateRoomCode"
    /\ IF Collides(code)
       THEN /\ res' = Json(500, "Something went wrong.")
            /\ pc' = "idle"
            /\ creator' = undefined
            /\ UNCHANGED <<rooms, keyOrder, born, touched, reaped>>
       ELSE /\ rooms' = Prop(code, NewRoom(creator, now)) @@ rooms
            /\ keyOrder' = Append(keyOrder, code)
            /\ res' = Json(200, [roomCode |-> code])
            /\ pc' = "idle"
            /\ creator' = undefined
            /\ born' = Prop(code, ticks) @@ born
            /\ touched' = Prop(code, now) @@ touched
            /\ reaped' = Restrict(reaped, DOMAIN reaped \ {code})
    /\ UNCHANGED <<userLastMessageTime, now, ticks, advances, lastAccepted>>

\* One pass of the do-while: draw `code`; repeat while rooms[code] is truthy,
\* else return it to the handler, which stores the room and answers.
GenerateRoomCode(code) ==
    /\ pc = "generateRoomCode"
    /\ IF Collides(code)
       THEN UNCHANGED <<rooms, keyOrder, res, pc, creator, born, touched,
                        reaped>>
       ELSE /\ rooms' = Prop(code, NewRoom(creator, now)) @@ rooms
            /\ keyOrder' = Append(keyOrder, code)
            /\ res' = Json(200, [roomCode |-> code])
            /\ pc' = "idle"
            /\ creator' = undefined
            /\ born' = Prop(code, ticks) @@ born
            /\ touched' = Prop(code, now) @@ touched
            /\ reaped' = Restrict(reaped, DOMAIN reaped \ {code})
    /\ UNCHANGED <<userLastMessageTime, now, ticks, advances, lastAccepted>>

(***************************************************************************)
(* GET /set-room-details/:roomCode                                         *)
(***************************************************************************)
\* A title stored as it came.
TitleAsGiven(movieTitle) == movieTitle

\* movieTitle || ""
TitleOrEmpty(movieTitle) == IF Falsy(movieTitle) THEN "" ELSE movieTitle

\* A handler that starts the room's clock again with the new video.
SetRoomDetailsRestart(code, url, movieTitle) ==
    /\ pc = "idle"
    /\ IF ~RoomTruthy(code)
       THEN /\ res' = NotFound
            /\ UNCHANGED <<rooms, touched>>
       ELSE /\ IF code \in DOMAIN rooms
               THEN /\ rooms' = [rooms EXCEPT
                                   ![code].videoUrl = url,
                                   ![code].movieTitle = TitleOrEmpty(movieTitle),
                                   ![code].currentTime = 0,
                                   ![code].lastActivity = now]
                    /\ touched' = [touched EXCEPT ![code] = now]
               ELSE UNCHANGED <<rooms, touched>>
            /\ res' = Success
    /\ UNCHANGED <<keyOrder, userLastMessageTime, now, pc, creator, ticks,
                   born, advances, lastAccepted, reaped>>

SetRoomDetails(code, url, movieTitle) ==
    /\ pc = "idle"
    /\ IF ~RoomTruthy(code)
       THEN /\ res' = NotFound
            /\ UNCHANGED <<rooms, touched>>
       ELSE /\ IF code \in DOMAIN rooms
               THEN /\ rooms' = [rooms EXCEPT
                                   ![code].videoUrl = url,
                                   ![code].movieTitle = TitleOrEmpty(movieTitle),
                                   ![code].lastActivity = now]
                    /\ touched' = [touched EXCEPT ![code] = now]
               ELSE \* videoUrl, movieTitle and lastActivity are set on the
                    \* inherited function object, which nothing else reads
                    UNCHANGED <<rooms, touched>>
            /\ res' = Success
    /\ UNCHANGED <<keyOrder, userLastMessageTime, now, pc, creator, ticks,
                   born, advances, lastAccepted, reaped>>

(***************************************************************************)
(* GET /time/:roomCode                                                     *)
(***************************************************************************)
\* {currentTime: room.currentTime}; the inherited function object has none
TimeBody(code) ==
    IF code \in DOMAIN rooms
    THEN [currentTime |-> rooms[code].currentTime]
    ELSE EmptyObject

\* A poll that does not count as activity.
GetCurrentTimeNoRefresh(code) ==
    /\ pc = "idle"
    /\ IF ~RoomTruthy(code)
       THEN /\ res' = NotFound
            /\ UNCHANGED touched
       ELSE /\ IF code \in DOMAIN rooms
               THEN touched' = [touched EXCEPT ![code] = now]
               ELSE UNCHANGED touched
            /\ res' = SentFromRegistry
    /\ UNCHANGED <<rooms, keyOrder, userLastMessageTime, now, pc, creator,
                   ticks, born, advances, lastAccepted, reaped>>

GetCurrentTime(code) ==
    /\ pc = "idle"
    /\ IF ~RoomTruthy(code)
       THEN /\ res' = NotFound
            /\ UNCHANGED <<rooms, touched>>
       ELSE /\ IF code \in DOMAIN rooms
               THEN /\ rooms' = [rooms EXCEPT ![code].lastActivity = now]
                    /\ touched' = [touched EXCEPT ![code] = now]
               ELSE UNCHANGED <<rooms, touched>>
            /\ res' = SentFromRegistry
    /\ UNCHANGED <<keyOrder, userLastMessageTime, now, pc, creator, ticks,
                   born, advances, lastAccepted, reaped>>

(***************************************************************************)
(* GET /room-details/:roomCode                                             *)
(***************************************************************************)
\* {videoUrl, roomName, movieTitle, chat} of an own room
DetailsBody(code) ==
    JsonProp("videoUrl", rooms[code].videoUrl)
    @@ Prop("roomName", rooms[code].roomName)
    @@ Prop("movieTitle", rooms[code].movieTitle)
    @@ Prop("chat", rooms[code].chat)

GetRoomDetails(code) ==
    /\ pc = "idle"
    /\ IF ~RoomTruthy(code)
       THEN /\ res' = NotFound
            /\ UNCHANGED <<rooms, touched>>
       ELSE /\ IF code \in DOMAIN rooms
               THEN /\ rooms' = [rooms EXCEPT ![code].lastActivity = now]
                    /\ touched' = [touched EXCEPT ![code] = now]
               ELSE UNCHANGED <<rooms, touched>>
            /\ res' = SentFromRegistry
    /\ UNCHANGED <<keyOrder, userLastMessageTime, now, pc, creator, ticks,
                   born, advances, lastAccepted, reaped>>

(***************************************************************************)
(* GET /rooms                                                              *)
(***************************************************************************)
\* A listing that filters nothing.
IsConfiguredAlways(code) == TRUE

IsConfigured(code) == ~Falsy(rooms[code].videoUrl)

ListEntry(code) ==
    [code |-> code,
     roomName |-> rooms[code].roomName,
     movieTitle |-> rooms[code].movieTitle]

\* Object.keys(rooms).filter(...).map(...)
RoomList ==
    LET kept == SelectSeq(ObjectKeys, IsConfigured)
    IN  [i \in 1..Len(kept) |-> ListEntry(kept[i])]

\* A listing that counts as activity of the rooms it lists.
ListConfiguredRoomsRefreshing ==
    /\ pc = "idle"
    /\ rooms' = [code \in DOMAIN rooms |->
                   IF IsConfigured(code)
                   THEN [rooms[code] EXCEPT !.lastActivity = now]
                   ELSE rooms[code]]
    /\ res' = SentFromRegistry
    /\ UNCHANGED <<keyOrder, userLastMessageTime, now, pc, creator,
                   ticks, born, touched, advances, lastAccepted, reaped>>

ListConfiguredRooms ==
    /\ pc = "idle"
    /\ res' = SentFromRegistry
    /\ UNCHANGED <<rooms, keyOrder, userLastMessageTime, now, pc, creator,
                   ticks, born, touched, advances, lastAccepted, reaped>>

(***************************************************************************)
(* POST /send-message/:roomCode                                            *)
(***************************************************************************)
\* A message stored with its text and its poster exchanged.
ChatMessageSwapped(username, profilePicture, message, t) ==
    [username |-> message,
     profilePicture |-> profilePicture,
     message |-> username,
     timestamp |-> t]

ChatMessage(username, profilePicture, message, t) ==
    [username |-> username,
     profilePicture |-> profilePicture,
     message |-> message,
     timestamp |-> t]

\* A handler that puts the newest message first.
PostMessageNewestFirst(code, username, profilePicture, message) ==
    /\ pc = "idle"
    /\ IF ~RoomTruthy(code)
       THEN /\ res' = NotFound
            /\ UNCHANGED <<rooms, userLastMessageTime, touched, lastAccepted>>
       ELSE IF Falsy(username) \/ Falsy(message)
       THEN /\ res' = Json(400, ErrorBody("Username and message are required"))
            /\ UNCHANGED <<rooms, userLastMessageTime, touched, lastAccepted>>
       ELSE IF RateLimited(username, now)
       THEN /\ res' = Json(429, ErrorBody("Slow down a bit before sending another message."))
            /\ UNCHANGED <<rooms, userLastMessageTime, touched, lastAccepted>>
       ELSE IF code \in DOMAIN rooms
       THEN /\ userLastMessageTime' = RecordTime(username, now)
            /\ rooms' = [rooms EXCEPT
                           ![code].chat = <<ChatMessage(username,
                                             profilePicture, message, now)>> \o @,
                           ![code].lastActivity = now]
            /\ touched' = [touched EXCEPT ![code] = now]
            /\ lastAccepted' = Prop(username, now) @@ lastAccepted
            /\ res' = Success
       ELSE /\ userLastMessageTime' = RecordTime(username, now)
            /\ res' = Json(500, ErrorBody("Something went wrong."))
            /\ UNCHANGED <<rooms, touched, lastAccepted>>
    /\ UNCHANGED <<keyOrder, now, pc, creator, ticks, born, advances, reaped>>

PostMessage(code, username, profilePicture, message) ==
    /\ pc = "idle"
    /\ IF ~RoomTruthy(code)
       THEN /\ res' = NotFound
            /\ UNCHANGED <<rooms, userLastMessageTime, touched, lastAccepted>>
       ELSE IF Falsy(username) \/ Falsy(message)
       THEN /\ res' = Json(400, ErrorBody("Username and message are required"))
            /\ UNCHANGED <<rooms, userLastMessageTime, touched, lastAccepted>>
       ELSE IF RateLimited(username, now)
       THEN /\ res' = Json(429, ErrorBody("Slow down a bit before sending another message."))
            /\ UNCHANGED <<rooms, userLastMessageTime, touched, lastAccepted>>
       ELSE IF code \in DOMAIN rooms
       THEN /\ userLastMessageTime' = RecordTime(username, now)
            /\ rooms' = [rooms EXCEPT
                           ![code].chat = Append(@, ChatMessage(username,
                                                 profilePicture, message, now)),
                           ![code].lastActivity = now]
            /\ touched' = [touched EXCEPT ![code] = now]
            /\ lastAccepted' = Prop(username, now) @@ lastAccepted
            /\ res' = Success
       ELSE \* room.chat is undefined on the inherited function object: push
            \* throws after line 595 has run; the error handler answers 500
            /\ userLastMessageTime' = RecordTime(username, now)
            /\ res' = Json(500, ErrorBody("Something went wrong."))
            /\ UNCHANGED <<rooms, touched, lastAccepted>>
    /\ UNCHANGED <<keyOrder, now, pc, creator, ticks, born, advances, reaped>>

(***************************************************************************)
(* The clock ticker and the reaper.                                        *)
(***************************************************************************)
\* A ticker that advances only the rooms that have a video.
TickConfiguredOnly ==
    /\ pc = "idle"
    /\ rooms' = [code \in DOMAIN rooms |->
                   IF IsConfigured(code)
                   THEN [rooms[code] EXCEPT !.currentTime = @ + TICK_STEP]
                   ELSE rooms[code]]
    /\ ticks' = ticks + 1
    /\ UNCHANGED <<keyOrder, userLastMessageTime, now, res, pc, creator,
                   born, touched, advances, lastAccepted, reaped>>

\* A ticker that drops the rooms that have no video.
TickEvicting ==
    /\ pc = "idle"
    /\ rooms' = [code \in {c \in DOMAIN rooms : IsConfigured(c)} |->
                   [rooms[code] EXCEPT !.currentTime = @ + TICK_STEP]]
    /\ keyOrder' = SelectSeq(keyOrder, IsConfigured)
    /\ born' = Restrict(born, DOMAIN rooms')
    /\ touched' = Restrict(touched, DOMAIN rooms')
    /\ ticks' = ticks + 1
    /\ UNCHANGED <<userLastMessageTime, now, res, pc, creator, advances,
                   lastAccepted, reaped>>

Tick ==
    /\ pc = "idle"
    /\ rooms' = [code \in DOMAIN rooms |->
                   [rooms[code] EXCEPT !.currentTime = @ + TICK_STEP]]
    /\ ticks' = ticks + 1
    /\ UNCHANGED <<keyOrder, userLastMessageTime, now, res, pc, creator,
                   born, touched, advances, lastAccepted, reaped>>

\* A sweep that deletes only the rooms that have no video.
ExpiredUnconfigured(room, t) == Falsy(room.videoUrl)

\* A sweep that already deletes at the limit.
ExpiredAtLimit(room, t) ==
    Falsy(room.videoUrl) \/ t - room.lastActivity >= INACTIVITY_LIMIT

\* !room.videoUrl || now - room.lastActivity > 30 * 60 * 1000
Expired(room, t) ==
    Falsy(room.videoUrl) \/ t - room.lastActivity > INACTIVITY_LIMIT

Reaper ==
    /\ pc = "idle"
    /\ LET kept == {code \in DOMAIN rooms : ~Expired(rooms[code], now)}
           IsKept(code) == code \in kept
       IN  /\ rooms' = Restrict(rooms, kept)
           /\ keyOrder' = SelectSeq(keyOrder, IsKept)
           /\ born' = Restrict(born, kept)
           /\ touched' = Restrict(touched, kept)
           /\ reaped' = [code \in DOMAIN rooms \ kept |-> now] @@ reaped
    /\ UNCHANGED <<userLastMessageTime, now, res, pc, creator, ticks,
                   advances, lastAccepted>>

(***************************************************************************)
(* The passage of time: Date.now() moves on between two callbacks.         *)
(***************************************************************************)
AdvanceTime ==
    /\ pc = "idle"
    /\ now' = now + TimeStep(advances + 1)
    /\ advances' = advances + 1
    /\ UNCHANGED <<rooms, keyOrder, userLastMessageTime, res, pc, creator,
                   ticks, born, touched, lastAccepted, reaped>>

(***************************************************************************)
(* The next-state relation: any request, timer callback or passage of time,*)
(* within the bounds.                                                      *)
(***************************************************************************)
\* How many messages the registry holds.
RECURSIVE CountMessages(_)
CountMessages(S) ==
    IF S = {} THEN 0
    ELSE LET c == CHOOSE x \in S : TRUE
         IN  Len(rooms[c].chat) + CountMessages(S \ {c})
StoredMessages == CountMessages(DOMAIN rooms)

Step(genCodes, reqCodes, postNames) ==
    \/ \E username \in CreateNames : CreateRoom(username)
    \/ \E code \in genCodes : GenerateRoomCode(code)
    \/ \E code \in reqCodes, d \in Details :
          SetRoomDetails(code, d.url, d.movieTitle)
    \/ \E code \in reqCodes : GetCurrentTime(code)
    \/ \E code \in reqCodes : GetRoomDetails(code)
    \/ ListConfiguredRooms
    \/ \E code \in reqCodes, username \in postNames,
          profilePicture \in Pictures, message \in Messages :
          /\ StoredMessages < MaxMessages
          /\ PostMessage(code, username, profilePicture, message)
    \/ ticks < MaxTicks /\ Tick
    \/ Reaper
    \/ advances < MaxAdvances /\ AdvanceTime

Next == Step(GenCodes, ReqCodes, PostNames)

Spec == Init /\ [][Next]_vars

\* The same program with fair random draws: Math.random() is uniform over the
\* code space, so a free code that stays free is eventually drawn.  A draw
\* that collides changes nothing, hence the fair step is the returning draw.
SpecDraws ==
    /\ Init
    /\ [][Next]_vars
    /\ WF_vars(\E code \in GenCodes : GenerateRoomCode(code))

\* The same callbacks with one room code, and with requests whose room code
\* or poster name is a property every object inherits.
NextInherited == Step({"A1B2C"}, InheritedReqCodes, InheritedPostNames)

SpecInherited == Init /\ [][NextInherited]_vars

(***************************************************************************)
(* One client alone on a fresh server, calling /create-room as alice,      *)
(* /set-room-details, /room-details, /send-message and /room-details again *)
(* on the room it got, while the ticker fires and time passes; the reaper  *)
(* does not fire.  How many of the five calls have been answered shows in  *)
(* the last response and the chat, which the ticker and the clock leave    *)
(* alone.                                                                  *)
(***************************************************************************)
ScenarioCalls ==
    IF DOMAIN rooms = {} THEN 0
    ELSE LET code == CHOOSE c \in DOMAIN rooms : TRUE
         IN  CASE res = Json(200, [roomCode |-> code]) -> 1
               [] res = Success /\ rooms[code].chat = <<>> -> 2
               [] res = SentFromRegistry /\ rooms[code].chat = <<>> -> 3
               [] res = Success /\ rooms[code].chat # <<>> -> 4
               [] res = SentFromRegistry /\ rooms[code].chat # <<>> -> 5
               [] OTHER -> 6

NextScenario ==
    \/ ScenarioCalls = 0 /\ CreateRoom("alice")
    \/ \E code \in GenCodes : GenerateRoomCode(code)
    \/ /\ ScenarioCalls = 1
       /\ \E code \in DOMAIN rooms :
             SetRoomDetails(code, "https://x/video", "Movie A")
    \/ /\ ScenarioCalls \in {2, 4}
       /\ \E code \in DOMAIN rooms : GetRoomDetails(code)
    \/ /\ ScenarioCalls = 3
       /\ \E code \in DOMAIN rooms : PostMessage(code, "alice", null, "hi")
    \/ ticks < MaxTicks /\ Tick
    \/ advances < MaxAdvances /\ AdvanceTime

SpecScenario == Init /\ [][NextScenario]_vars

(***************************************************************************)
(* The backend with its timers scheduled fairly.  Requests that name a     *)
(* room come only during the first MaxAdvances instants; after them the    *)
(* clock runs on for one more round of TimeSteps, which is longer than the *)
(* reaper's limit.  A room is created only while a code is free, as is the *)
(* case with 36^5 codes.                                                   *)
(*                                                                         *)
(* Fairness: the reaper's interval fires whenever the event loop is idle   *)
(* at its due time, and time passes whatever the server does, so neither   *)
(* can be put off for ever by callbacks that run in between (SF); a draw   *)
(* of the generator that finds a free code comes up with probability 1     *)
(* (WF).                                                                   *)
(***************************************************************************)
QuietAdvances == MaxAdvances + Len(TimeSteps) - 1

NextFair ==
    \/ /\ \E code \in GenCodes : ~Collides(code)
       /\ CreateRoom("alice")
    \/ \E code \in GenCodes : GenerateRoomCode(code)
    \/ /\ advances < MaxAdvances
       /\ \E code \in GenCodes :
             \/ SetRoomDetails(code, "https://x/video", "Movie A")
             \/ GetCurrentTime(code)
             \/ GetRoomDetails(code)
             \/ /\ StoredMessages < MaxMessages
                /\ PostMessage(code, "alice", null, "hi")
    \/ ListConfiguredRooms
    \/ ticks < MaxTicks /\ Tick
    \/ Reaper
    \/ advances < QuietAdvances /\ AdvanceTime

SpecFair ==
    /\ Init
    /\ [][NextFair]_vars
    /\ SF_vars(Reaper)
    /\ SF_vars(advances < QuietAdvances /\ AdvanceTime)
    /\ WF_vars(\E code \in GenCodes : ~Collides(code) /\ GenerateRoomCode(code))

(***************************************************************************)
(* Properties.  Requests are quantified over every input either            *)
(* specification uses.                                                     *)
(***************************************************************************)
AllReqCodes == ReqCodes \cup InheritedReqCodes
AllPostNames == PostNames \cup InheritedPostNames

\* The i-th and j-th key of the registry differ, and the keys are those of
\* the live rooms.
KeysDistinct ==
    /\ \A i, j \in DOMAIN keyOrder : i # j => keyOrder[i] # keyOrder[j]
    /\ {keyOrder[i] : i \in DOMAIN keyOrder} = DOMAIN rooms

\* A step in which /create-room answers with a room code.
CreateReturns == pc = "generateRoomCode" /\ pc' = "idle"

\* C1: the codes of the live rooms are pairwise distinct in every reachable
\* state, and whenever CreateRoom returns, the code it returns was not a key
\* of the registry before the step and every room that existed is still
\* there, unchanged.
C1_CodesUnique ==
    /\ []KeysDistinct
    /\ [][CreateReturns =>
            \E code \in DOMAIN rooms' \ DOMAIN rooms :
                /\ res' = Json(200, [roomCode |-> code])
                /\ \A c \in DOMAIN rooms :
                      c \in DOMAIN rooms' /\ rooms'[c] = rooms[c]]_vars

\* C1 witness: CreateRoom has just returned the second of two live rooms.
C1_Witness ==
    /\ Cardinality(DOMAIN rooms) = 2
    /\ \E code \in DOMAIN rooms : res = Json(200, [roomCode |-> code])

\* A PostMessage step whose username or message is empty.
EmptyPost(code, username, profilePicture, message) ==
    /\ (username = "" \/ message = "")
    /\ PostMessage(code, username, profilePicture, message)

\* C2 as stated: PostMessage with an empty username or an empty message
\* yields InvalidInput for every room code, whether or not the room exists,
\* and changes no chat log.
C2_EmptyPostAlwaysInvalidInput ==
    [][\A code \in AllReqCodes, username \in AllPostNames,
          profilePicture \in Pictures, message \in Messages :
          EmptyPost(code, username, profilePicture, message) =>
              /\ res'.status = 400
              /\ rooms' = rooms]_vars

\* C2 as amended: PostMessage with an empty username or an empty message
\* yields InvalidInput for every live room, whatever the rate limiter holds;
\* for a code that is not a live room it yields NotFound or InvalidInput; it
\* never changes a room or the rate limiter.
C2_EmptyPostRejected ==
    [][\A code \in AllReqCodes, username \in AllPostNames,
          profilePicture \in Pictures, message \in Messages :
          EmptyPost(code, username, profilePicture, message) =>
              /\ code \in DOMAIN rooms => res'.status = 400
              /\ res'.status \in {400, 404}
              /\ res'.status = 404 => code \notin DOMAIN rooms
              /\ rooms' = rooms
              /\ userLastMessageTime' = userLastMessageTime]_vars

\* C2 witness: InvalidInput has been answered to a PostMessage while a live
\* room holds a message whose poster is still rate-limited.
C2_Witness ==
    /\ res = Json(400, ErrorBody("Username and message are required"))
    /\ \E code \in DOMAIN rooms : Len(rooms[code].chat) = 1
    /\ "alice" \in DOMAIN userLastMessageTime
    /\ now - userLastMessageTime["alice"] < 5000

\* C3: for a live room and a non-empty username and message, if a message of
\* that username was last accepted at time t, a PostMessage at time now
\* yields RateLimited when now - t < 5000 and succeeds when now - t >= 5000.
C3_RateLimitWindow ==
    [][\A code \in AllReqCodes, username \in AllPostNames,
          profilePicture \in Pictures, message \in Messages :
          ( /\ PostMessage(code, username, profilePicture, message)
            /\ code \in DOMAIN rooms
            /\ username # "" /\ message # ""
            /\ username \in DOMAIN lastAccepted ) =>
              IF now - lastAccepted[username] < 5000
              THEN res'.status = 429
              ELSE res' = Success]_vars

\* C4: GetCurrentTime, GetRoomDetails and SetRoomDetails with a room code
\* that is not a live room yield NotFound and leave the registry and the
\* rate limiter unchanged.
C4_NotFoundForUnknownCode ==
    [][\A code \in AllReqCodes :
          ( /\ code \notin DOMAIN rooms
            /\ \/ GetCurrentTime(code)
               \/ GetRoomDetails(code)
               \/ \E d \in Details : SetRoomDetails(code, d.url, d.movieTitle) ) =>
              /\ res' = NotFound
              /\ UNCHANGED <<rooms, keyOrder, userLastMessageTime>>]_vars

\* C5: each Tick adds exactly 5 to the currentTime of every room of the
\* registry, configured or not, and in every reachable state the currentTime
\* of a live room is 5 times the number of Ticks since it was created.
C5_CurrentTimeCountsTicks ==
    /\ [](\A code \in DOMAIN rooms :
             rooms[code].currentTime = 5 * (ticks - born[code]))
    /\ [][ticks' # ticks =>
            /\ DOMAIN rooms' = DOMAIN rooms
            /\ \A code \in DOMAIN rooms :
                  rooms'[code] = [rooms[code] EXCEPT !.currentTime = @ + 5]]_vars

\* C5 witness: after a Tick an unconfigured room stands at 5 and a room that
\* was created after the Tick at 0.
C5_Witness ==
    \E c1, c2 \in DOMAIN rooms :
        /\ rooms[c1].currentTime = 5 /\ rooms[c1].videoUrl = ""
        /\ rooms[c2].currentTime = 0
        /\ ticks = 1

\* C6: in every state the list ListConfiguredRooms returns holds exactly one
\* entry {code, roomName, movieTitle} for each live room whose videoUrl is
\* not empty and none for a room whose videoUrl is empty.
C6_ListExactlyConfigured ==
    /\ \A i \in DOMAIN RoomList :
          LET code == RoomList[i].code
          IN  /\ code \in DOMAIN rooms
              /\ RoomList[i] = [code |-> code,
                                roomName |-> rooms[code].roomName,
                                movieTitle |-> rooms[code].movieTitle]
    /\ \A code \in DOMAIN rooms :
          Cardinality({i \in DOMAIN RoomList : RoomList[i].code = code})
            = IF rooms[code].videoUrl \in {"", undefined} THEN 0 ELSE 1

\* C6 witness: SetRoomDetails has just succeeded with a URL on one of two
\* live rooms, and the list holds that room and not the unconfigured one.
C6_Witness ==
    /\ res = Success
    /\ \E c1, c2 \in DOMAIN rooms :
          /\ rooms[c1].videoUrl = "https://x/video"
          /\ rooms[c1].lastActivity = now
          /\ rooms[c1].chat = <<>>
          /\ rooms[c2].videoUrl = ""
          /\ Len(RoomList) = 1
          /\ RoomList[1].code = c1

\* C7: a Reaper sweep at time now deletes exactly the rooms whose videoUrl is
\* empty or whose now - lastActivity exceeds 30 minutes; every other room is
\* in the registry after the sweep with all its fields unchanged.
C7_ReaperDeletesExactly ==
    [][Reaper =>
          \A code \in DOMAIN rooms :
              IF \/ rooms[code].videoUrl \in {"", undefined}
                 \/ now - rooms[code].lastActivity > 30 * 60 * 1000
              THEN code \notin DOMAIN rooms'
              ELSE code \in DOMAIN rooms' /\ rooms'[code] = rooms[code]]_vars

\* C7 witness: a sweep at the present time has deleted a room and has kept a
\* configured room that has been idle for exactly 30 minutes.
C7_Witness ==
    /\ \E code \in DOMAIN reaped : reaped[code] = now
    /\ \E code \in DOMAIN rooms :
          /\ rooms[code].videoUrl # ""
          /\ now - rooms[code].lastActivity = 30 * 60 * 1000

\* C8: a room code leaves the registry only in a Reaper sweep: no other step
\* removes a key.
C8_OnlyReaperDeletes ==
    [][Reaper \/ DOMAIN rooms \subseteq DOMAIN rooms']_vars

\* C8 witness: the Reaper has deleted a room and another is live, after
\* requests that stored a message.
C8_Witness ==
    /\ reaped # EmptyObject
    /\ \E code \in DOMAIN rooms : rooms[code].chat # <<>>

\* C9 as stated: a room that a request has read or written within the
\* inactivity threshold before a sweep is not deleted by that sweep.
C9_TouchedRoomSurvives ==
    [][Reaper =>
          \A code \in DOMAIN rooms :
              now - touched[code] <= INACTIVITY_LIMIT =>
                  code \in DOMAIN rooms']_vars

\* C9 as amended: a room whose videoUrl is not empty at a sweep and that a
\* request has read or written within the inactivity threshold before the
\* sweep is not deleted by that sweep.
C9_TouchedConfiguredRoomSurvives ==
    [][Reaper =>
          \A code \in DOMAIN rooms :
              ( /\ rooms[code].videoUrl \notin {"", undefined}
                /\ now - touched[code] <= INACTIVITY_LIMIT ) =>
                  code \in DOMAIN rooms']_vars

\* C9 witness: a configured room last served by a request 30 minutes ago, at
\* a later time than its creation, is live after a sweep at the present time.
C9_Witness ==
    /\ \E code \in DOMAIN reaped : reaped[code] = now
    /\ \E code \in DOMAIN rooms :
          /\ rooms[code].videoUrl # ""
          /\ touched[code] > 1
          /\ now - touched[code] = INACTIVITY_LIMIT

\* C10: a successful CreateRoom(displayName) adds exactly one entry, with
\* roomName "{displayName}'s room", empty videoUrl and movieTitle,
\* currentTime 0, an empty chat and lastActivity now, and leaves every other
\* room and the rate limiter unchanged.
C10_CreateAddsOneRoom ==
    [][CreateReturns =>
          \E code \in DOMAIN rooms' \ DOMAIN rooms :
              /\ DOMAIN rooms' = DOMAIN rooms \cup {code}
              /\ rooms'[code] = [roomName |-> creator \o "'s room",
                                 videoUrl |-> "",
                                 movieTitle |-> "",
                                 currentTime |-> 0,
                                 chat |-> <<>>,
                                 lastActivity |-> now]
              /\ \A c \in DOMAIN rooms : rooms'[c] = rooms[c]
              /\ userLastMessageTime' = userLastMessageTime]_vars

\* C10 witness: CreateRoom("alice") has just returned a fresh room beside a
\* room that holds a message.
C10_Witness ==
    \E c1, c2 \in DOMAIN rooms :
        /\ res = Json(200, [roomCode |-> c1])
        /\ rooms[c1] = [roomName |-> "alice's room", videoUrl |-> "",
                        movieTitle |-> "", currentTime |-> 0, chat |-> <<>>,
                        lastActivity |-> now]
        /\ rooms[c2].chat # <<>>
        /\ userLastMessageTime # EmptyObject

\* C11: CreateRoom with an empty or a missing displayName yields InvalidInput,
\* returns no room code and leaves the registry unchanged: no room is created
\* and the code generator is not entered.
C11_CreateEmptyNameRejected ==
    [][\A username \in {"", undefined} :
          CreateRoom(username) =>
              /\ res' = Json(400, ErrorBody("Username is required"))
              /\ pc' = "idle"
              /\ UNCHANGED <<rooms, keyOrder, userLastMessageTime>>]_vars

\* C11 witness: InvalidInput has been answered to a CreateRoom while a room
\* that holds a message is live.
C11_Witness ==
    /\ res = Json(400, ErrorBody("Username is required"))
    /\ pc = "idle"
    /\ \E code \in DOMAIN rooms : rooms[code].chat # <<>>

\* C12: a successful SetRoomDetails(code, url, movieTitle) on a live room
\* sets videoUrl to url, movieTitle to the title given or to the empty string
\* when it is omitted, and lastActivity to the current time; roomName,
\* currentTime and chat of that room and every other room stay as they were.
C12_SetRoomDetailsFrame ==
    [][\A code \in AllReqCodes, d \in Details :
          (code \in DOMAIN rooms /\ SetRoomDetails(code, d.url, d.movieTitle)) =>
              /\ res' = Success
              /\ DOMAIN rooms' = DOMAIN rooms
              /\ rooms'[code] =
                    [roomName |-> rooms[code].roomName,
                     currentTime |-> rooms[code].currentTime,
                     chat |-> rooms[code].chat,
                     videoUrl |-> d.url,
                     movieTitle |-> IF d.movieTitle = undefined
                                    THEN "" ELSE d.movieTitle,
                     lastActivity |-> now]
              /\ \A other \in DOMAIN rooms \ {code} :
                    rooms'[other] = rooms[other]]_vars

\* C12 witness: SetRoomDetails without a title has just succeeded on a room
\* that has been ticked and holds a message, beside a room that has a video.
C12_Witness ==
    /\ res = Success
    /\ \E c1, c2 \in DOMAIN rooms :
          /\ rooms[c1].videoUrl = "" /\ rooms[c1].movieTitle = ""
          /\ rooms[c1].lastActivity = now
          /\ rooms[c1].currentTime = 5
          /\ Len(rooms[c1].chat) = 1 /\ rooms[c1].chat[1].timestamp < now
          /\ rooms[c2].movieTitle = "Movie A"
          /\ rooms[c2].lastActivity < now

\* C13: an accepted PostMessage(code, username, profilePicture, message)
\* appends exactly one message {username, profilePicture, message,
\* timestamp = now} at the end of that room's chat, sets that room's
\* lastActivity to now, records now as the last accepted time of the username
\* in the rate limiter, and changes no other room and no other field.
C13_AcceptedPostEffects ==
    [][\A code \in AllReqCodes, username \in AllPostNames,
          profilePicture \in Pictures, message \in Messages :
          ( /\ res' = Success
            /\ PostMessage(code, username, profilePicture, message) ) =>
              /\ code \in DOMAIN rooms
              /\ DOMAIN rooms' = DOMAIN rooms
              /\ rooms'[code] =
                    [rooms[code] EXCEPT
                       !.chat = Append(@, [username |-> username,
                                           profilePicture |-> profilePicture,
                                           message |-> message,
                                           timestamp |-> now]),
                       !.lastActivity = now]
              /\ \A other \in DOMAIN rooms \ {code} :
                    rooms'[other] = rooms[other]
              /\ username \in DOMAIN userLastMessageTime'
              /\ userLastMessageTime'[username] = now
              /\ \A other \in DOMAIN userLastMessageTime \ {username} :
                    /\ other \in DOMAIN userLastMessageTime'
                    /\ userLastMessageTime'[other] = userLastMessageTime[other]]_vars

\* C14: on a fresh server, without a Reaper sweep: CreateRoom("alice")
\* returns a code C1; SetRoomDetails(C1, "https://x/video", "Movie A")
\* succeeds; GetRoomDetails(C1) returns videoUrl "https://x/video", roomName
\* "alice's room", movieTitle "Movie A" and an empty chat;
\* PostMessage(C1, "alice", null, "hi") succeeds; GetRoomDetails(C1) then
\* returns a chat of length 1 whose message is "hi".
C14_Scenario ==
    [][/\ (ScenarioCalls = 0 /\ CreateReturns) =>
             \E code \in DOMAIN rooms' : res' = Json(200, [roomCode |-> code])
       /\ \A code \in DOMAIN rooms :
             /\ ( /\ ScenarioCalls = 1
                  /\ SetRoomDetails(code, "https://x/video", "Movie A") ) =>
                    res' = Success
             /\ (ScenarioCalls = 2 /\ GetRoomDetails(code)) =>
                    /\ res' = SentFromRegistry
                    /\ DetailsBody(code)' = [videoUrl |-> "https://x/video",
                                             roomName |-> "alice's room",
                                             movieTitle |-> "Movie A",
                                             chat |-> <<>>]
             /\ ( /\ ScenarioCalls = 3
                  /\ PostMessage(code, "alice", null, "hi") ) =>
                    res' = Success
             /\ (ScenarioCalls = 4 /\ GetRoomDetails(code)) =>
                    /\ res' = SentFromRegistry
                    /\ Len(DetailsBody(code)'.chat) = 1
                    /\ DetailsBody(code)'.chat[1].message = "hi"]_vars

\* C14 witness: the five calls have been answered, the last one with the
\* details of alice's room and her one message.
C14_Witness ==
    /\ ScenarioCalls = 5
    /\ \E code \in DOMAIN rooms :
          /\ Len(rooms[code].chat) = 1
          /\ DetailsBody(code) =
                [videoUrl |-> "https://x/video",
                 roomName |-> "alice's room",
                 movieTitle |-> "Movie A",
                 chat |-> <<[username |-> "alice", profilePicture |-> null,
                             message |-> "hi",
                             timestamp |-> rooms[code].lastActivity]>>]

\* Two messages with the same username stored in the chats of live rooms, in
\* one room or in two, have timestamps at least 5000 ms apart.
SameNameMessagesApart ==
    \A c1, c2 \in DOMAIN rooms :
        \A i \in DOMAIN rooms[c1].chat, j \in DOMAIN rooms[c2].chat :
            ( /\ (c1 # c2 \/ i # j)
              /\ rooms[c1].chat[i].username = rooms[c2].chat[j].username ) =>
                \/ rooms[c1].chat[i].timestamp - rooms[c2].chat[j].timestamp >= 5000
                \/ rooms[c2].chat[j].timestamp - rooms[c1].chat[i].timestamp >= 5000

\* C15: the rate limit is keyed by display name across the whole registry:
\* in every reachable state two stored messages with the same username have
\* timestamps at least 5000 ms apart, and a name whose message was accepted
\* less than 5000 ms ago, in whatever room, live or reaped since, is
\* rejected with RateLimited in every live room.
C15_RateLimitAcrossRooms ==
    /\ []SameNameMessagesApart
    /\ [][\A code \in AllReqCodes, username \in AllPostNames,
             profilePicture \in Pictures, message \in Messages :
             ( /\ code \in DOMAIN rooms
               /\ username # "" /\ message # ""
               /\ username \in DOMAIN lastAccepted
               /\ now - lastAccepted[username] < 5000
               /\ PostMessage(code, username, profilePicture, message) ) =>
                 res' = Json(429, ErrorBody("Slow down a bit before sending another message."))]_vars

\* C16: a PostMessage that fails (with NotFound, InvalidInput or RateLimited,
\* the failures it is documented to have) changes nothing: the time the rate limiter holds for the
\* username, every chat and every lastActivity are after the call what they
\* were before, so that the window is measured from the last accepted
\* message and not from the last attempt.
C16_FailedPostChangesNothing ==
    [][\A code \in AllReqCodes, username \in AllPostNames,
          profilePicture \in Pictures, message \in Messages :
          ( /\ res' # Success
            /\ PostMessage(code, username, profilePicture, message) ) =>
              /\ userLastMessageTime' = userLastMessageTime
              /\ rooms' = rooms]_vars

\* C17: while a room stays live its currentTime never decreases and is never
\* reset: a step that changes it is a Tick and adds 5; no CreateRoom,
\* SetRoomDetails, GetCurrentTime, GetRoomDetails, ListConfiguredRooms,
\* PostMessage or Reaper sweep changes the currentTime of a room that is
\* live after it.
C17_CurrentTimeOnlyTicks ==
    [][\A code \in DOMAIN rooms \cap DOMAIN rooms' :
          /\ rooms'[code].currentTime >= rooms[code].currentTime
          /\ rooms'[code].currentTime # rooms[code].currentTime =>
                /\ Tick
                /\ rooms'[code].currentTime = rooms[code].currentTime + 5]_vars

\* C17 witness: SetRoomDetails has just given a new URL to a room that stands
\* at 5, after the Tick and after another room was created.
C17_Witness ==
    /\ res = Success
    /\ ticks = 1
    /\ \E c1, c2 \in DOMAIN rooms :
          /\ rooms[c1].currentTime = 5
          /\ rooms[c1].videoUrl = "https://x/video"
          /\ rooms[c1].lastActivity = now
          /\ rooms[c1].chat = <<>>
          /\ rooms[c2].currentTime = 0
          /\ rooms[c2].lastActivity < now

\* s is an initial segment of t.
IsPrefix(s, t) == Len(s) <= Len(t) /\ s = SubSeq(t, 1, Len(s))

\* The timestamps along every chat do not decrease.
TimestampsInOrder ==
    \A code \in DOMAIN rooms :
        \A i, j \in DOMAIN rooms[code].chat :
            i < j => rooms[code].chat[i].timestamp <= rooms[code].chat[j].timestamp

\* C18: each room's chat is append-only in arrival order: over every step
\* that keeps the room live the chat before is a prefix of the chat after, so
\* stored messages are never modified, reordered, removed or deduplicated,
\* and a step adds at most one message; timestamps along a chat never
\* decrease.
C18_ChatAppendOnly ==
    /\ []TimestampsInOrder
    /\ [][\A code \in DOMAIN rooms \cap DOMAIN rooms' :
             /\ IsPrefix(rooms[code].chat, rooms'[code].chat)
             /\ Len(rooms'[code].chat) <= Len(rooms[code].chat) + 1]_vars

\* C18 witness: a chat holds two messages with the same poster and the same
\* text, the second accepted later than the first.
C18_Witness ==
    \E code \in DOMAIN rooms :
        /\ Len(rooms[code].chat) = 2
        /\ rooms[code].chat[1].username = rooms[code].chat[2].username
        /\ rooms[code].chat[1].message = rooms[code].chat[2].message
        /\ rooms[code].chat[1].timestamp < rooms[code].chat[2].timestamp

\* A step that serves SetRoomDetails, GetCurrentTime, GetRoomDetails or an
\* accepted PostMessage on the room `code`.
Serves(code) ==
    \/ GetCurrentTime(code)
    \/ GetRoomDetails(code)
    \/ \E d \in Details : SetRoomDetails(code, d.url, d.movieTitle)
    \/ /\ res' = Success
       /\ \E username \in AllPostNames, profilePicture \in Pictures,
             message \in Messages :
             PostMessage(code, username, profilePicture, message)

\* C19: over a step that keeps a room live its lastActivity changes only if
\* the step serves SetRoomDetails, GetCurrentTime, GetRoomDetails or an
\* accepted PostMessage addressed to that room, and each of these sets it to
\* the current time; ListConfiguredRooms changes nothing but the response;
\* a Tick, the CreateRoom of another room and a request on another room do
\* not change it.
C19_LastActivityFrame ==
    [][/\ \A code \in DOMAIN rooms \cap DOMAIN rooms' :
             /\ rooms'[code].lastActivity # rooms[code].lastActivity =>
                   Serves(code)
             /\ rooms'[code].lastActivity # now => ~Serves(code)
       /\ ListConfiguredRooms =>
             UNCHANGED <<rooms, keyOrder, userLastMessageTime>>]_vars

\* C19 witness: ListConfiguredRooms has answered while a room with a video,
\* last served earlier, is live.
C19_Witness ==
    /\ res = SentFromRegistry
    /\ \E code \in DOMAIN rooms :
          /\ rooms[code].videoUrl = "https://x/video"
          /\ rooms[code].lastActivity < now
          /\ touched[code] = rooms[code].lastActivity

\* C20: with the Reaper and the clock scheduled fairly, every room is
\* eventually deleted once the requests addressed to it stop, listed and
\* ticked or not; and a room that has no video at a sweep is deleted by that
\* sweep.
C20_IdleRoomEventuallyReaped ==
    /\ \A code \in GenCodes :
          (code \in DOMAIN rooms) ~> (code \notin DOMAIN rooms)
    /\ [][Reaper =>
            \A code \in DOMAIN rooms :
                rooms[code].videoUrl \in {"", undefined} =>
                    code \notin DOMAIN rooms']_vars

\* C20 witness: a room with a video that has been ticked and has just been
\* listed was last served more than 30 minutes ago and awaits the sweep; an
\* earlier sweep has deleted a room.
C20_Witness ==
    /\ res = SentFromRegistry
    /\ reaped # EmptyObject
    /\ \E code \in DOMAIN rooms :
          /\ rooms[code].videoUrl = "https://x/video"
          /\ rooms[code].currentTime = 5
          /\ now - touched[code] > INACTIVITY_LIMIT
          /\ \E i \in DOMAIN RoomList : RoomList[i].code = code

\* The codes of the space that are not live rooms.
FreeCodes == GenCodes \ DOMAIN rooms

\* C21: the generator resamples while the drawn code is a key of the registry
\* and returns the first free code it draws.  Under fair draws a CreateRoom
\* whose generator is running returns whenever a code of the space is free;
\* when every code of the space is a live room it never returns, and no
\* handler, Tick, Reaper or clock step changes anything while it loops, so no
\* code is ever freed.
C21_GeneratorTermination ==
    /\ (pc = "generateRoomCode" /\ FreeCodes # {}) ~> (pc = "idle")
    /\ [][pc = "generateRoomCode" =>
            \/ /\ pc' = "generateRoomCode"
               /\ UNCHANGED vars
            \/ /\ pc' = "idle"
               /\ \E code \in FreeCodes :
                     /\ DOMAIN rooms' = DOMAIN rooms \cup {code}
                     /\ res' = Json(200, [roomCode |-> code])
                     /\ \A other \in DOMAIN rooms :
                           rooms'[other] = rooms[other]]_vars
    /\ [][(pc = "generateRoomCode" /\ FreeCodes = {}) => UNCHANGED vars]_vars
    /\ [](pc = "generateRoomCode" /\ FreeCodes = {}
             => [](pc = "generateRoomCode" /\ FreeCodes = {}))

\* C21 witness: CreateRoom is inside the generator while every code of the
\* space is a live room, one of them with a video, after the clock has moved.
C21_Witness ==
    /\ pc = "generateRoomCode"
    /\ creator = "alice"
    /\ FreeCodes = {}
    /\ now > 0
    /\ \E code \in DOMAIN rooms : rooms[code].videoUrl = "https://x/video"

\* A SetRoomDetails of this step has written all three fields of `code`.
DetailsApplied(code) ==
    /\ code \in DOMAIN rooms
    /\ code \in DOMAIN rooms'
    /\ rooms'[code].lastActivity = now
    /\ \E d \in Details :
          /\ rooms'[code].videoUrl = d.url
          /\ rooms'[code].movieTitle = TitleOrEmpty(d.movieTitle)
    /\ rooms'[code].chat = rooms[code].chat

\* A PostMessage of this step has appended one message to `code` and
\* refreshed its lastActivity.
MessageApplied(code) ==
    /\ code \in DOMAIN rooms
    /\ code \in DOMAIN rooms'
    /\ rooms'[code].lastActivity = now
    /\ Len(rooms'[code].chat) = Len(rooms[code].chat) + 1
    /\ IsPrefix(rooms[code].chat, rooms'[code].chat)
    /\ rooms'[code].chat[Len(rooms'[code].chat)].timestamp = now

\* C22: every registry operation is one step.  A SetRoomDetails or PostMessage
\* that reports success has, in that step, fully mutated a room that is in the
\* registry before and after it; the ticker and the sweep run only between
\* whole callbacks; and in every state they can see, no stored message is
\* newer than its room's lastActivity.
C22_HandlersAtomic ==
    /\ [][/\ (/\ res' = Success
              /\ \E code \in AllReqCodes, d \in Details :
                    SetRoomDetails(code, d.url, d.movieTitle))
             => \E code \in DOMAIN rooms : DetailsApplied(code)
          /\ (/\ res' = Success
              /\ \E code \in AllReqCodes, username \in AllPostNames,
                    message \in Messages :
                    PostMessage(code, username, null, message))
             => \E code \in DOMAIN rooms : MessageApplied(code)
          /\ (Tick \/ Reaper) => (pc = "idle" /\ pc' = "idle")]_vars
    /\ [](\A code \in DOMAIN rooms :
             \A i \in DOMAIN rooms[code].chat :
                rooms[code].chat[i].timestamp <= rooms[code].lastActivity)
====
